---- MODULE Spec2Model ----
(***************************************************************************)
(* A model of the media-backend admin service (src/main.py): the flat-file *)
(* user and settings stores, the patch directory written by the agent      *)
(* endpoint, and the apply / rollback handlers with their backup           *)
(* directory.                                                              *)
(*                                                                         *)
(* Names and paths are Python strings, modelled as sequences of one-       *)
(* character strings, so that split / replace / basename / join / sorted   *)
(* are computed the way the code computes them.  File contents are opaque  *)
(* byte strings, modelled as TLA+ strings.  A filesystem path is the       *)
(* sequence of its components after os.path.abspath.                       *)
(*                                                                         *)
(* PATCH_DIR and BACKUP_DIR are relative to the working directory, the     *)
(* project tree is relative to the script; they are modelled as three      *)
(* disjoint stores (no input below names a target inside backend/app).     *)
(***************************************************************************)
EXTENDS Integers, Sequences, FiniteSets, TLC

VARIABLES
    clock,      \* datetime.now(), in whole seconds
    patches,    \* PATCH_DIR: file name -> content
    backups,    \* BACKUP_DIR: file name -> content
    files,      \* regular files of the host filesystem: path -> content
    users,      \* USERS_FILE: email -> [password, role]
    settings,   \* SETTINGS_FILE: <<>> when the file is absent, else <<record>>
    resp,       \* the last handler's HTTP response
    patchBorn,  \* history: patch name -> clock when it was first written
    backupBorn  \* history: backup name -> clock when it was first written

vars == <<clock, patches, backups, files, users, settings, resp, patchBorn, backupBorn>>

----------------------------------------------------------------------------
(* Bounds of the model *)

\* the last second the clock reaches
MaxClock == 1
\* patches the agent may store in the apply / rollback flow
MaxPatches == 1
\* patches the agent may store in the listing flow
MaxListed == 2

----------------------------------------------------------------------------
(* Python string operations *)

None == <<>>
Some(v) == <<v>>

\* dict.update of one key
Put(f, k, v) == [x \in DOMAIN f \cup {k} |-> IF x = k THEN v ELSE f[x]]

\* index of the first occurrence of character c in s, 0 when there is none
RECURSIVE FindChar(_, _, _)
FindChar(s, c, i) ==
    IF i > Len(s) THEN 0
    ELSE IF s[i] = c THEN i
    ELSE FindChar(s, c, i + 1)

\* s.split(c, n): at most n splits, on a one-character separator
RECURSIVE Split(_, _, _)
Split(s, c, n) ==
    LET i == FindChar(s, c, 1)
    IN  IF n = 0 \/ i = 0 THEN <<s>>
        ELSE <<SubSeq(s, 1, i - 1)>> \o Split(SubSeq(s, i + 1, Len(s)), c, n - 1)

\* s.split(c)
SplitAll(s, c) == Split(s, c, Len(s))

\* s.replace(a, b) for one-character a and b
Replace(s, a, b) == [i \in 1..Len(s) |-> IF s[i] = a THEN b ELSE s[i]]

\* c.join(parts)
RECURSIVE Join(_, _)
Join(c, parts) ==
    IF Len(parts) = 0 THEN <<>>
    ELSE IF Len(parts) = 1 THEN parts[1]
    ELSE parts[1] \o <<c>> \o Join(c, Tail(parts))

\* index of the first occurrence of the substring sep in s, 0 when none
RECURSIVE FindSub(_, _, _)
FindSub(s, sep, i) ==
    IF i + Len(sep) - 1 > Len(s) THEN 0
    ELSE IF SubSeq(s, i, i + Len(sep) - 1) = sep THEN i
    ELSE FindSub(s, sep, i + 1)

\* s.split(sep)[0]
BeforeFirst(s, sep) ==
    LET i == FindSub(s, sep, 1)
    IN  IF i = 0 THEN s ELSE SubSeq(s, 1, i - 1)

\* index of the last occurrence of character c in s, 0 when there is none
RECURSIVE RFindChar(_, _, _)
RFindChar(s, c, i) ==
    IF i = 0 THEN 0
    ELSE IF s[i] = c THEN i
    ELSE RFindChar(s, c, i - 1)

\* os.path.basename(p)
Basename(p) == SubSeq(p, RFindChar(p, "/", Len(p)) + 1, Len(p))

\* os.path.join(a, p): an absolute p replaces a
OsPathJoin(a, p) ==
    IF Len(p) > 0 /\ p[1] = "/" THEN p
    ELSE IF Len(a) > 0 /\ a[Len(a)] # "/" THEN a \o <<"/">> \o p
    ELSE a \o p

\* os.path.normpath over the components of an absolute path
RECURSIVE NormComponents(_, _)
NormComponents(comps, acc) ==
    IF Len(comps) = 0 THEN acc
    ELSE LET c == Head(comps)
         IN  IF c = <<>> \/ c = <<".">> THEN NormComponents(Tail(comps), acc)
             ELSE IF c = <<".", ".">>
                  THEN NormComponents(Tail(comps),
                           IF Len(acc) = 0 THEN acc ELSE SubSeq(acc, 1, Len(acc) - 1))
             ELSE NormComponents(Tail(comps), Append(acc, c))

\* os.path.abspath(p) of an absolute p: the sequence of its components
Abspath(p) == NormComponents(SplitAll(p, "/"), <<>>)

\* code point of a character, for the order sorted() uses
Ord(c) ==
    CASE c = "." -> 46
      [] c = "/" -> 47
      [] c = "0" -> 48
      [] c = "1" -> 49
      [] c = "2" -> 50
      [] c = "3" -> 51
      [] c = "4" -> 52
      [] c = "5" -> 53
      [] c = "6" -> 54
      [] c = "7" -> 55
      [] c = "8" -> 56
      [] c = "9" -> 57
      [] c = "_" -> 95
      [] c = "a" -> 97
      [] c = "b" -> 98
      [] c = "d" -> 100
      [] c = "k" -> 107
      [] c = "n" -> 110
      [] c = "p" -> 112
      [] c = "q" -> 113
      [] c = "x" -> 120
      [] c = "y" -> 121

\* s < t in Python's string order
RECURSIVE StrLess(_, _)
StrLess(s, t) ==
    IF Len(t) = 0 THEN FALSE
    ELSE IF Len(s) = 0 THEN TRUE
    ELSE IF Ord(s[1]) # Ord(t[1]) THEN Ord(s[1]) < Ord(t[1])
    ELSE StrLess(Tail(s), Tail(t))

\* sorted(names, reverse=True)
RECURSIVE SortedReverse(_)
SortedReverse(names) ==
    IF names = {} THEN <<>>
    ELSE LET m == CHOOSE a \in names : \A b \in names \ {a} : StrLess(b, a)
         IN  <<m>> \o SortedReverse(names \ {m})

\* datetime.now().strftime('%Y%m%d_%H%M%S'): two fixed-width numeric fields,
\* here one digit each
Digit(n) == <<"0", "1", "2", "3", "4", "5", "6", "7", "8", "9">>[n + 1]
Strftime(t) == <<Digit(t \div 10), "_", Digit(t % 10)>>

----------------------------------------------------------------------------
(* The host filesystem *)

\* os.path.dirname(__file__) of the running script
ScriptDir == <<"/", "p", "/", "b", "/", "a">>

\* the directories of the host; no handler creates or removes one
Dirs == { <<>>,
          << <<"p">> >>,
          << <<"p">>, <<"b">> >>,
          << <<"p">>, <<"b">>, <<"a">> >>,
          << <<"p">>, <<"d">> >> }

\* the project files present when the service starts
InitFiles ==
    (<< <<"p">>, <<"x">> >> :> "old1") @@ (<< <<"p">>, <<"d">>, <<"y">> >> :> "old2")

Parent(path) == SubSeq(path, 1, Len(path) - 1)

\* os.path.exists(path)
Exists(fs, path) == path \in DOMAIN fs \/ path \in Dirs

\* open(path, 'wb') as if the parent directories were made first
Writable_AnyParent(path) == path \notin Dirs /\ Len(path) > 0

\* open(path, 'wb') succeeds: not a directory, and inside an existing directory
Writable(path) == path \notin Dirs /\ Len(path) > 0 /\ Parent(path) \in Dirs

----------------------------------------------------------------------------
(* Names derived by the handlers *)

\* agent: the name under which a patch for `file` is stored at time t
AgentPatchName(file, t) == Strftime(t) \o <<"_">> \o Replace(file, "/", "_")

\* apply_patch with name.split("_", 1): the time field stays in the path
ApplyTargetFile_OneSplit(name) ==
    LET parts == Split(name, "_", 1)
    IN  Replace(parts[Len(parts)], "_", "/")

\* apply_patch: target_file, derived from the patch name
ApplyTargetFile(name) ==
    LET parts == Split(name, "_", 2)
    IN  Replace(parts[Len(parts)], "_", "/")

\* os.path.abspath(os.path.join(os.path.dirname(__file__), "../../", target_file))
TargetPath(target_file) ==
    Abspath(OsPathJoin(OsPathJoin(ScriptDir, <<".", ".", "/", ".", ".", "/">>), target_file))

BakMarker == <<".", "b", "a", "k", "_">>

\* apply_patch: the name of the backup taken at time t
BackupName(target_file, t) == Basename(target_file) \o BakMarker \o Strftime(t)

\* rollback_backup: target_file, derived from the backup name
RollbackTargetFile(name) == Join("_", SplitAll(BeforeFirst(name, BakMarker), "_"))

----------------------------------------------------------------------------
(* Inputs *)

\* contents the completion API may return as `code`
Codes == {"c1"}

\* paths the completion API may return as `file`
FileInputs ==
    { <<"x">>,                \* an existing file of the project root
      <<"d", "/", "y">>,      \* an existing file of a subdirectory
      <<"n">>,                \* no such file, in the project root
      <<"q", "/", "n">>,      \* no such file, in a directory that does not exist
      <<"x", "/">>,           \* an existing file, written with a trailing separator
      <<"d", "_", "y">>,      \* a name with an underscore in it
      <<"d">> }               \* an existing directory

\* the OPENAI_API_KEY environment variable
EnvKeys == {None, Some("ek")}

\* what the completion call comes back with
Replies ==
    {[kind |-> "error", file |-> <<>>, code |-> ""],
     [kind |-> "text",  file |-> <<>>, code |-> ""],
     [kind |-> "json",  file |-> <<>>, code |-> ""]}
    \cup {[kind |-> "patch", file |-> f, code |-> c] : f \in FileInputs, c \in Codes}

Clocks == 0..MaxClock

\* a patch name and a backup name a client may ask for that no request ever stored
AbsentPatchName == AgentPatchName(<<"k">>, 0)
AbsentBackupName == BackupName(<<"k">>, 0)

----------------------------------------------------------------------------
(* The stores *)

SettingKeys == {"openai_api_key", "model", "theme", "lang"}
EmptySettings == [k \in SettingKeys |-> None]

\* load_settings(): the record read, and the file as load leaves it
LoadSettings(s) == IF s = None THEN EmptySettings ELSE s[1]
AfterLoadSettings(s) == IF s = None THEN Some(EmptySettings) ELSE s

\* ensure_admin_user() on an empty store
AdminUsers == [e \in {"admin"} |-> [password |-> "admin", role |-> "admin"]]

Response(op, status, out) == [op |-> op, status |-> status, out |-> out]

Init ==
    /\ clock = 0
    /\ patches = <<>>
    /\ backups = <<>>
    /\ files = InitFiles
    /\ users = AdminUsers
    /\ settings = None
    /\ resp = Response("start", 0, None)
    /\ patchBorn = <<>>
    /\ backupBorn = <<>>

\* the history of first writes
Born(born, name, t) == IF name \in DOMAIN born THEN born ELSE Put(born, name, t)

----------------------------------------------------------------------------
(* Time passes between and during requests *)

Tick ==
    /\ clock < MaxClock
    /\ clock' = clock + 1
    /\ UNCHANGED <<patches, backups, files, users, settings, resp, patchBorn, backupBorn>>

----------------------------------------------------------------------------
(* POST /api/agent *)

\* the key the agent uses: the environment, else the settings file if there is one
AgentApiKey(env, s) ==
    IF env # None /\ env[1] # "" THEN env
    ELSE IF s # None THEN s[1]["openai_api_key"]
    ELSE None

agent(env, reply) ==
    LET api_key == AgentApiKey(env, settings)
        name    == AgentPatchName(reply.file, clock)
    IN  IF api_key = None \/ api_key = Some("")
        THEN /\ resp' = Response("agent", 500, None)
             /\ UNCHANGED <<clock, patches, backups, files, users, settings,
                            patchBorn, backupBorn>>
        ELSE /\ settings' = AfterLoadSettings(settings)
             /\ IF reply.kind = "error"
                THEN /\ resp' = Response("agent", 500, None)
                     /\ UNCHANGED <<patches, patchBorn>>
                ELSE IF reply.kind = "patch"
                THEN /\ patches' = Put(patches, name, reply.code)
                     /\ patchBorn' = Born(patchBorn, name, clock)
                     /\ resp' = Response("agent", 200, Some(name))
                ELSE /\ resp' = Response("agent", 200, None)
                     /\ UNCHANGED <<patches, patchBorn>>
             /\ UNCHANGED <<clock, backups, files, users, backupBorn>>

----------------------------------------------------------------------------
(* GET /api/patches, GET /api/backups *)

list_patches ==
    /\ resp' = Response("list_patches", 200, SortedReverse(DOMAIN patches))
    /\ UNCHANGED <<clock, patches, backups, files, users, settings, patchBorn, backupBorn>>

list_backups ==
    /\ resp' = Response("list_backups", 200, SortedReverse(DOMAIN backups))
    /\ UNCHANGED <<clock, patches, backups, files, users, settings, patchBorn, backupBorn>>

----------------------------------------------------------------------------
(* POST /api/patches/apply/{name} *)

apply_patch(name) ==
    IF name \notin DOMAIN patches
    THEN /\ resp' = Response("apply_patch", 404, None)
         /\ UNCHANGED <<clock, patches, backups, files, users, settings,
                        patchBorn, backupBorn>>
    ELSE LET target_file == ApplyTargetFile(name)
             target_path == TargetPath(target_file)
             backup_name == BackupName(target_file, clock)
         IN  /\ IF Exists(files, target_path)
                THEN IF target_path \in Dirs
                     \* copyfile(target_path, backup_path) raises on a directory
                     THEN /\ resp' = Response("apply_patch", 500, None)
                          /\ UNCHANGED <<backups, backupBorn, files>>
                     ELSE /\ backups' = Put(backups, backup_name, files[target_path])
                          /\ backupBorn' = Born(backupBorn, backup_name, clock)
                          /\ files' = Put(files, target_path, patches[name])
                          /\ resp' = Response("apply_patch", 200,
                                           [target_file |-> target_file,
                                            backup |-> Some(backup_name)])
                ELSE IF Writable(target_path)
                     THEN /\ files' = Put(files, target_path, patches[name])
                          /\ resp' = Response("apply_patch", 200,
                                           [target_file |-> target_file, backup |-> None])
                          /\ UNCHANGED <<backups, backupBorn>>
                     \* copyfile(patch_path, target_path) raises: no such directory
                     ELSE /\ resp' = Response("apply_patch", 500, None)
                          /\ UNCHANGED <<backups, backupBorn, files>>
             /\ UNCHANGED <<clock, patches, users, settings, patchBorn>>

----------------------------------------------------------------------------
(* POST /api/backups/rollback/{name} *)

\* rollback_backup without its existence check: the copy of a missing backup raises
rollback_backup_Unchecked(name) ==
    IF name \notin DOMAIN backups
    THEN /\ resp' = Response("rollback_backup", 500, None)
         /\ UNCHANGED <<clock, patches, backups, files, users, settings,
                        patchBorn, backupBorn>>
    ELSE LET target_path == TargetPath(RollbackTargetFile(name))
         IN  /\ IF Writable(target_path)
                THEN /\ files' = Put(files, target_path, backups[name])
                     /\ resp' = Response("rollback_backup", 200, None)
                ELSE /\ resp' = Response("rollback_backup", 500, None)
                     /\ UNCHANGED files
             /\ UNCHANGED <<clock, patches, backups, users, settings,
                            patchBorn, backupBorn>>

rollback_backup(name) ==
    IF name \notin DOMAIN backups
    THEN /\ resp' = Response("rollback_backup", 404, None)
         /\ UNCHANGED <<clock, patches, backups, files, users, settings,
                        patchBorn, backupBorn>>
    ELSE LET target_file == RollbackTargetFile(name)
             target_path == TargetPath(target_file)
         IN  /\ IF Writable(target_path)
                THEN /\ files' = Put(files, target_path, backups[name])
                     /\ resp' = Response("rollback_backup", 200, None)
                \* copyfile(backup_path, target_path) raises
                ELSE /\ resp' = Response("rollback_backup", 500, None)
                     /\ UNCHANGED files
             /\ UNCHANGED <<clock, patches, backups, users, settings,
                            patchBorn, backupBorn>>

----------------------------------------------------------------------------------------------------------------------------------------------
(* The apply / rollback flow *)

\* the agent's reply stores no more than `cap` patches
Room(reply, cap) ==
    \/ reply.kind # "patch"
    \/ AgentPatchName(reply.file, clock) \in DOMAIN patches
    \/ Cardinality(DOMAIN patches) < cap

Agent == \E env \in EnvKeys, reply \in Replies : Room(reply, MaxPatches) /\ agent(env, reply)
ApplyPatch == \E name \in DOMAIN patches \cup {AbsentPatchName} : apply_patch(name)
RollbackBackup == \E name \in DOMAIN backups \cup {AbsentBackupName} : rollback_backup(name)

Next ==
    \/ Tick
    \/ Agent
    \/ ApplyPatch
    \/ RollbackBackup

Spec == Init /\ [][Next]_vars

----------------------------------------------------------------------------
(* The listing flow: the requests that fill or read the two directories *)

AgentListed == \E env \in EnvKeys, reply \in Replies : Room(reply, MaxListed) /\ agent(env, reply)

NextList ==
    \/ Tick
    \/ AgentListed
    \/ ApplyPatch
    \/ list_patches
    \/ list_backups

SpecList == Init /\ [][NextList]_vars

----------------------------------------------------------------------------
(* POST /api/signup, POST /api/login *)

Emails == {"admin", "ann", "bob", "cyd"}
Passwords == {"admin", "pw1", "pw2"}

\* signup without its duplicate check
signup_Overwrite(email, password) ==
    /\ users' = Put(users, email, [password |-> password, role |-> "user"])
    /\ resp' = Response("signup", 200, None)
    /\ UNCHANGED <<clock, patches, backups, files, settings, patchBorn, backupBorn>>

signup(email, password) ==
    /\ IF email \in DOMAIN users
       THEN /\ resp' = Response("signup", 400, None)
            /\ UNCHANGED users
       ELSE /\ users' = Put(users, email, [password |-> password, role |-> "user"])
            /\ resp' = Response("signup", 200, None)
    /\ UNCHANGED <<clock, patches, backups, files, settings, patchBorn, backupBorn>>

login(email, password) ==
    /\ IF email \notin DOMAIN users \/ users[email].password # password
       THEN resp' = Response("login", 401, None)
       ELSE resp' = Response("login", 200, Some([email |-> email, role |-> users[email].role]))
    /\ UNCHANGED <<clock, patches, backups, files, users, settings, patchBorn, backupBorn>>

Signup == \E email \in Emails, password \in Passwords : signup(email, password)
Login == \E email \in Emails, password \in Passwords : login(email, password)

NextAuth ==
    \/ Signup
    \/ Login

SpecAuth == Init /\ [][NextAuth]_vars

----------------------------------------------------------------------------
(* GET /api/settings, POST /api/settings *)

Mask == "*****"

\* the bodies a client may post: each key absent (None) or present with a value
KeyValues == {None, Some(""), Some(Mask), Some("k1"), Some("k2")}
ModelValues == {None, Some(""), Some("m1"), Some("m2")}
ThemeValues == {None, Some(""), Some("t1"), Some("t2")}
LangValues == {None, Some("en")}
SettingsInputs ==
    {[k \in SettingKeys |->
        CASE k = "openai_api_key" -> key
          [] k = "model" -> model
          [] k = "theme" -> theme
          [] k = "lang" -> lang] :
     key \in KeyValues, model \in ModelValues, theme \in ThemeValues, lang \in LangValues}

\* get_settings without the masking
Masked_Raw(rec) == rec

\* get_settings: the record returned to the client
Masked(rec) ==
    IF rec["openai_api_key"] # None
    THEN [rec EXCEPT !["openai_api_key"] = Some(Mask)]
    ELSE rec

get_settings ==
    /\ settings' = AfterLoadSettings(settings)
    /\ resp' = Response("get_settings", 200, Masked(LoadSettings(settings)))
    /\ UNCHANGED <<clock, patches, backups, files, users, patchBorn, backupBorn>>

\* update_settings: the record saved
Merged(rec, data) ==
    [k \in SettingKeys |->
        IF k = "openai_api_key"
        THEN IF data[k] # None /\ data[k] \notin {Some(""), Some(Mask)} THEN data[k] ELSE rec[k]
        ELSE IF k = "model"
        THEN IF data[k] # None /\ data[k] # Some("") THEN data[k] ELSE rec[k]
        ELSE IF data[k] # None THEN data[k] ELSE rec[k]]

update_settings(data) ==
    /\ settings' = Some(Merged(LoadSettings(settings), data))
    /\ resp' = Response("update_settings", 200, None)
    /\ UNCHANGED <<clock, patches, backups, files, users, patchBorn, backupBorn>>

UpdateSettings == \E data \in SettingsInputs : update_settings(data)

NextSettings ==
    \/ get_settings
    \/ UpdateSettings

SpecSettings == Init /\ [][NextSettings]_vars

----------------------------------------------------------------------------
(* Properties of the apply / rollback flow *)

\* the target apply_patch derives for a stored patch
ApplyPath(name) == TargetPath(ApplyTargetFile(name))

\* the backups a step adds
NewBackups == DOMAIN backups' \ DOMAIN backups

\* C1: every successful apply_patch of a stored patch onto an existing target
\* file adds exactly one new backup entry, holding the target's bytes from
\* before the overwrite, and leaves the target holding the patch content,
\* also when the clock has not advanced since an earlier apply.
C1_ApplyAddsOneBackup ==
    [][\A name \in DOMAIN patches :
          (/\ ApplyPath(name) \in DOMAIN files
           /\ apply_patch(name)
           /\ resp'.status = 200)
          => /\ Cardinality(NewBackups) = 1
             /\ \A b \in NewBackups : backups'[b] = files[ApplyPath(name)]
             /\ files'[ApplyPath(name)] = patches[name]]_vars

\* the path C2 names for a backup: the part before the first '.bak_' marker,
\* its underscores read as path separators, under the project root
ClaimedRollbackPath(name) == TargetPath(Replace(BeforeFirst(name, BakMarker), "_", "/"))

\* C2: rollback_backup of a stored backup leaves the file at the path named by
\* the part of the backup name before '.bak_' holding exactly the backup's bytes.
C2_RollbackWritesBackupBytes ==
    [][\A name \in DOMAIN backups :
          rollback_backup(name)
          => /\ ClaimedRollbackPath(name) \in DOMAIN files'
             /\ files'[ClaimedRollbackPath(name)] = backups[name]]_vars

\* C3: a backup entry, once created, is never removed and never changes content.
C3_BackupsImmutable ==
    [][\A b \in DOMAIN backups : b \in DOMAIN backups' /\ backups'[b] = backups[b]]_vars

\* C10: rolling back the backup that an apply just reported restores the applied
\* target to the bytes it held before the apply (the bytes that backup holds).
C10_ApplyRollbackRoundTrip ==
    [][\A b \in DOMAIN backups :
          (/\ resp.op = "apply_patch"
           /\ resp.status = 200
           /\ resp.out.backup = Some(b)
           /\ rollback_backup(b))
          => /\ TargetPath(resp.out.target_file) \in DOMAIN files'
             /\ files'[TargetPath(resp.out.target_file)] = backups[b]]_vars

NoUnderscore(s) == \A i \in 1..Len(s) : s[i] # "_"

\* C5: the name the agent stores a patch under, for a target path without
\* underscores, is mapped back by apply_patch to exactly that path, so the
\* patch is applied to the file it was generated for.
C5_PatchNameRoundTrip ==
    [][\A env \in EnvKeys, reply \in Replies :
          (/\ reply.kind = "patch"
           /\ NoUnderscore(reply.file)
           /\ agent(env, reply)
           /\ resp'.status = 200)
          => /\ resp'.out # None
             /\ resp'.out[1] \in DOMAIN patches'
             /\ ApplyTargetFile(resp'.out[1]) = reply.file
             /\ ApplyPath(resp'.out[1]) = TargetPath(reply.file)]_vars

\* a patch for a path with a separator and no underscore has just been stored
C5_Witness ==
    /\ resp.op = "agent"
    /\ resp.status = 200
    /\ resp.out = Some(AgentPatchName(<<"q", "/", "n">>, clock))
    /\ AgentPatchName(<<"q", "/", "n">>, clock) \in DOMAIN patches

\* C6: apply_patch of a stored patch whose target does not exist creates no
\* backup, reports the backup as none and leaves the target holding the patch
\* content.
C6_ApplyOnMissingTarget ==
    [][\A name \in DOMAIN patches :
          (/\ ApplyPath(name) \notin DOMAIN files
           /\ ApplyPath(name) \notin Dirs
           /\ apply_patch(name))
          => /\ backups' = backups
             /\ resp'.status = 200
             /\ resp'.out.backup = None
             /\ ApplyPath(name) \in DOMAIN files'
             /\ files'[ApplyPath(name)] = patches[name]]_vars

\* C6, amended: apply_patch of a stored patch at whose target path nothing
\* exists never touches the backups; when the target's parent directory
\* exists it answers 200, reports the backup as none and leaves the target
\* holding the patch content with every other file untouched; when the parent
\* directory does not exist it answers 500 and writes no file.
C6_ApplyOnMissingTargetInDir ==
    [][\A name \in DOMAIN patches :
          (/\ ~Exists(files, ApplyPath(name))
           /\ apply_patch(name))
          => /\ backups' = backups
             /\ IF Parent(ApplyPath(name)) \in Dirs
                THEN /\ resp'.status = 200
                     /\ resp'.out.backup = None
                     /\ files' = Put(files, ApplyPath(name), patches[name])
                ELSE /\ resp'.status = 500
                     /\ files' = files]_vars

\* a patch was applied to a target that did not exist: the file is new, holds
\* the patch content, and no backup was reported
C6_Witness ==
    /\ resp.op = "apply_patch"
    /\ resp.status = 200
    /\ resp.out.backup = None
    /\ TargetPath(resp.out.target_file) \in DOMAIN files \ DOMAIN InitFiles
    /\ backups = <<>>

\* C7: apply_patch of a name that is not in the patch directory, and
\* rollback_backup of a name that is not in the backup directory, answer 404
\* and leave every file, every patch and every backup as it was.
C7_NotFoundChangesNothing ==
    [][/\ \A name \in {AgentPatchName(f, t) : f \in FileInputs, t \in Clocks}
                      \cup {AbsentPatchName} :
             (name \notin DOMAIN patches /\ apply_patch(name))
             => (resp'.status = 404 /\ UNCHANGED <<files, patches, backups>>)
       /\ \A name \in {BackupName(f, t) : f \in FileInputs, t \in Clocks}
                      \cup {AbsentBackupName} :
             (name \notin DOMAIN backups /\ rollback_backup(name))
             => (resp'.status = 404 /\ UNCHANGED <<files, patches, backups>>)]_vars

\* a rollback was refused as not found while patches and backups were stored
C7_Witness ==
    /\ resp.op = "rollback_backup"
    /\ resp.status = 404
    /\ DOMAIN patches # {}
    /\ DOMAIN backups # {}

----------------------------------------------------------------------------
(* Properties of the listing flow *)

\* in `list`, an entry first written later stands before one written earlier
NewestFirst(list, born) ==
    \A i, j \in 1..Len(list) : born[list[i]] > born[list[j]] => i < j

\* C4: list_patches and list_backups return the names so that an entry created
\* later precedes every entry created earlier.
C4_ListsNewestFirst ==
    /\ resp.op = "list_patches" => NewestFirst(resp.out, patchBorn)
    /\ resp.op = "list_backups" => NewestFirst(resp.out, backupBorn)

----------------------------------------------------------------------------
(* Properties of the user store *)

\* C8: signup with an email that is already registered, the bootstrap admin
\* included, answers 400 whatever the password, and no signup ever replaces
\* the password or role of a registered user.
C8_SignupNeverOverwrites ==
    [][\A email \in Emails, password \in Passwords :
          signup(email, password)
          => /\ email \in DOMAIN users => (resp'.status = 400 /\ users' = users)
             /\ \A e \in DOMAIN users : e \in DOMAIN users' /\ users'[e] = users[e]]_vars

\* a signup was refused although other users had signed up meanwhile
C8_Witness ==
    /\ resp.op = "signup"
    /\ resp.status = 400
    /\ Cardinality(DOMAIN users) > 2

----------------------------------------------------------------------------
(* Properties of the settings store *)

\* C9: whenever an API key is stored, get_settings returns the mask in its
\* place and never the stored key, and it leaves the stored settings, the key
\* included, as they were.
C9_GetSettingsMasksKey ==
    [][get_settings
       => LET stored == LoadSettings(settings)
          IN  /\ LoadSettings(settings') = stored
              /\ stored["openai_api_key"] # None
                 => /\ resp'.out["openai_api_key"] = Some(Mask)
                    /\ resp'.out["openai_api_key"] # stored["openai_api_key"]
              /\ \A k \in SettingKeys \ {"openai_api_key"} : resp'.out[k] = stored[k]]_vars

\* the settings were read while an API key was stored
C9_Witness ==
    /\ resp.op = "get_settings"
    /\ settings # None
    /\ settings[1]["openai_api_key"] \in {Some("k1"), Some("k2")}
    /\ resp.out["openai_api_key"] = Some(Mask)

====
